---- MODULE Spec2Model ----
(***************************************************************************)
(* Model of analyze_passwords.py: the __main__ driver and the three        *)
(* per-corpus analyzers (zxcvbn score statistics, uniqueness, character    *)
(* classes).                                                               *)
(*                                                                         *)
(* A raw line is a sequence of one-character strings ending in "\n", as    *)
(* readlines() returns it.  A console line is recorded in `log` by the     *)
(* corpus it belongs to, its label and the field it reports; the number    *)
(* it shows is the value of the matching local in `stats`/`score_counts`.  *)
(* A chart panel is recorded in `panels` by metric family, axes index and  *)
(* label.  Locals of the analyzers are kept until the loop body ends.      *)
(***************************************************************************)
EXTENDS Integers, Sequences, FiniteSets, TLC

\* ------------------------------------------------------------------ bounds
MaxLines == 3
MaxFiles == 2

\* ------------------------------------------------------------ input values
Paths == {"f1", "f2"}
Labels == {"A", "B"}

Whitespace == {" ", "\n"}
Digits == {"0", "1", "2", "3", "4", "5", "6", "7", "8", "9"}
Uppercase == {"A", "B", "C", "D", "E", "F", "G", "H", "I", "J", "K", "L", "M",
              "N", "O", "P", "Q", "R", "S", "T", "U", "V", "W", "X", "Y", "Z"}
SpecialChars == {"!", "@", "#", "$", "%", "^", "&", "*", "(", ")"}

\* raw lines of the file an analyzer is called on directly: blank, "a",
\* " a" (the same password after strip), "A1!" (digit, uppercase and special
\* at once)
RawLines == { <<"\n">>, <<"a", "\n">>, <<" ", "a", "\n">>, <<"A", "1", "!", "\n">> }

\* raw lines of the corpus files of a whole run
RunLines == { <<"\n">>, <<"a", "\n">>, <<" ", "a", "\n">> }

SeqsUpTo(S, n) == UNION { [1..m -> S] : m \in 0..n }
NonEmptySeqsUpTo(S, n) == UNION { [1..m -> S] : m \in 1..n }

\* a file on disk: missing/unreadable, or a list of raw lines
Files(L) == { [exists |-> FALSE, lines |-> << >>] }
            \cup { [exists |-> TRUE, lines |-> ls] : ls \in SeqsUpTo(L, MaxLines) }

\* argparse leaves an option that was not given as None
None == << "None" >>
ArgLists(S) == NonEmptySeqsUpTo(S, MaxFiles) \cup { None }

\* ------------------------------------------------------------ pure helpers
RECURSIVE lstrip(_)
lstrip(s) == IF s = << >> THEN << >>
             ELSE IF Head(s) \in Whitespace THEN lstrip(Tail(s)) ELSE s

RECURSIVE rstrip(_)
rstrip(s) == IF s = << >> THEN << >>
             ELSE IF s[Len(s)] \in Whitespace THEN rstrip(SubSeq(s, 1, Len(s) - 1)) ELSE s

\* str.strip()
strip(s) == rstrip(lstrip(s))

\* variant: the lines are compared as read, without strip()
StripAllSkipped(ls) == ls

\* [password.strip() for password in passwords]
StripAll(ls) == [ n \in 1..Len(ls) |-> strip(ls[n]) ]

\* the passwords zxcvbn can be asked about, given the lines files may hold
Passwords(L) == { strip(l) : l \in L } \ { << >> }

ScoreClasses == 0..4

RECURSIVE SumSeq(_)
SumSeq(s) == IF s = << >> THEN 0 ELSE Head(s) + SumSeq(Tail(s))

RECURSIVE SumSquares(_)
SumSquares(s) == IF s = << >> THEN 0 ELSE Head(s) * Head(s) + SumSquares(Tail(s))

\* k-th smallest element of a score list (1-based), i.e. sorted(s)[k-1]
KthSmallest(s, k) ==
    CHOOSE v \in ScoreClasses :
        /\ Cardinality({ n \in 1..Len(s) : s[n] <= v }) >= k
        /\ Cardinality({ n \in 1..Len(s) : s[n] < v }) < k

\* statistics.mean: exact ratio sum/n
mean(s) == [num |-> SumSeq(s), den |-> Len(s)]

\* statistics.variance: sample variance, sum((x-m)^2)/(n-1) as an exact ratio
variance(s) == [num |-> Len(s) * SumSquares(s) - SumSeq(s) * SumSeq(s),
                den |-> Len(s) * (Len(s) - 1)]

\* statistics.median: middle value, or the average of the two middle values
median(s) ==
    IF Len(s) % 2 = 1
    THEN [num |-> 2 * KthSmallest(s, (Len(s) + 1) \div 2), den |-> 2]
    ELSE [num |-> KthSmallest(s, Len(s) \div 2) + KthSmallest(s, Len(s) \div 2 + 1),
          den |-> 2]

\* statistics.stdev: square root of the sample variance
stdev(s) == [sqrt_of |-> variance(s)]

\* len(set(passwords))
UniqueCount(ps) == Cardinality({ ps[n] : n \in 1..Len(ps) })

\* len(passwords) - unique_passwords
DuplicateCount(ps) == Len(ps) - UniqueCount(ps)

\* any(c.isdigit() for c in p)
HasDigit(p) == \E n \in 1..Len(p) : p[n] \in Digits
\* any(c.isupper() for c in p)
HasUpper(p) == \E n \in 1..Len(p) : p[n] \in Uppercase
\* variant: the three tests chained as if/elif, special tested last
HasSpecialElif(p) == /\ ~HasDigit(p) /\ ~HasUpper(p)
                     /\ \E n \in 1..Len(p) : p[n] \in SpecialChars
\* any(c in "!@#$%^&*()" for c in p)
HasSpecial(p) == \E n \in 1..Len(p) : p[n] \in SpecialChars

DigitCount(ps) == Cardinality({ n \in 1..Len(ps) : HasDigit(ps[n]) })
UpperCount(ps) == Cardinality({ n \in 1..Len(ps) : HasUpper(ps[n]) })
SpecialCount(ps) == Cardinality({ n \in 1..Len(ps) : HasSpecial(ps[n]) })

\* ------------------------------------------------------------------- state
VARIABLES pc, args, zxcvbn, num_datasets, axs, i, file,
          passwords, k, scores, score_counts, stats, uniq, chars,
          log, panels, shown, err

vars == << pc, args, zxcvbn, num_datasets, axs, i, file,
           passwords, k, scores, score_counts, stats, uniq, chars,
           log, panels, shown, err >>

NoError == [type |-> "none", by |-> "none"]
NoStats == [set |-> {}, mean |-> [num |-> 0, den |-> 1],
            variance |-> [num |-> 0, den |-> 1],
            median |-> [num |-> 0, den |-> 1],
            stdev |-> [sqrt_of |-> [num |-> 0, den |-> 1]]]
NoUniq == [set |-> FALSE, total |-> 0, unique_passwords |-> 0, duplicate_passwords |-> 0]
NoChars == [set |-> FALSE, total |-> 0, digit_count |-> 0, upper_count |-> 0, special_count |-> 0]
EmptyCounts == [c \in ScoreClasses |-> 0]

OpenEvent(corpus, path, fn) == [ev |-> "open", corpus |-> corpus, subject |-> path, detail |-> fn]
PrintEvent(corpus, label, field) == [ev |-> "print", corpus |-> corpus, subject |-> label, detail |-> field]
Panel(family, ax, label) == [family |-> family, ax |-> ax, label |-> label]

\* state shared by every entry point: nothing read, printed or drawn yet
Fresh ==
    /\ passwords = << >> /\ k = 1 /\ scores = << >> /\ score_counts = EmptyCounts
    /\ stats = NoStats /\ uniq = NoUniq /\ chars = NoChars
    /\ log = << >> /\ panels = {} /\ shown = FALSE /\ err = NoError

\* the script run from the command line, after parse_args()
Init ==
    /\ pc = "check_args"
    /\ args \in [input_files : ArgLists(Paths), labels : ArgLists(Labels)]
    /\ num_datasets = 0 /\ axs = "unset" /\ i = 0
    /\ file = [exists |-> FALSE, lines |-> << >>]
    /\ zxcvbn \in [Passwords(RunLines) -> ScoreClasses]
    /\ Fresh


\* ----------------------------------------------------------------- __main__
\* variant: the length comparison is left out
ArgsErrorUnchecked(a) ==
    IF a.input_files = None \/ a.labels = None
    THEN [type |-> "TypeError", by |-> "len"]
    ELSE NoError

\* len(args.input_files) != len(args.labels), raising ValueError; len(None)
\* is a TypeError
ArgsError(a) ==
    IF a.input_files = None \/ a.labels = None
    THEN [type |-> "TypeError", by |-> "len"]
    ELSE IF Len(a.input_files) # Len(a.labels)
         THEN [type |-> "ValueError", by |-> "__main__"]
         ELSE NoError

\* variant: the exception is caught and the script carries on
ContinueCaught(e, next) == next

\* where control goes when a statement raises or completes: nothing in the
\* script catches an exception
Continue(e, next) == IF e.type # "none" THEN "crashed" ELSE next

\* plt.subplots(1, n) / plt.subplots(n, 1): a single Axes when n = 1,
\* an array of n Axes otherwise
Subplots(n) == IF n = 1 THEN "Axes" ELSE "ndarray"

\* axs[i]: a single Axes is not subscriptable
IndexError(a) == IF a = "Axes"
                 THEN [type |-> "TypeError", by |-> "axs[i]"]
                 ELSE NoError

\* number of (input_file, label) pairs zip() yields
ZipLen(a) == IF Len(a.input_files) <= Len(a.labels)
             THEN Len(a.input_files) ELSE Len(a.labels)

\* open(input_file, 'r', encoding="latin-1")
OpenError(f) == IF f.exists THEN NoError
                ELSE [type |-> "FileNotFoundError", by |-> "open"]

\* lines 99-100
CheckArgs ==
    /\ pc = "check_args"
    /\ err' = ArgsError(args)
    /\ pc' = Continue(ArgsError(args), "subplots")
    /\ UNCHANGED << args, zxcvbn, num_datasets, axs, i, file, passwords, k,
                    scores, score_counts, stats, uniq, chars, log, panels, shown >>

\* lines 103-107; the loop index i is 1-based here
MakeFigures ==
    /\ pc = "subplots"
    /\ num_datasets' = Len(args.input_files)
    /\ axs' = Subplots(Len(args.input_files))
    /\ i' = 1
    /\ pc' = "loop"
    /\ UNCHANGED << args, zxcvbn, file, passwords, k, scores, score_counts,
                    stats, uniq, chars, log, panels, shown, err >>

\* ------------------------------------------- calculate_password_statistics
\* lines 109-111 and 14-18: next pair of the loop, axs_stats[i], then the
\* call: open, readlines, empty accumulators
StatsCall ==
    /\ pc = "loop"
    /\ i <= ZipLen(args)
    /\ \E f \in Files(RunLines) :
         IF IndexError(axs).type # "none"
         THEN /\ err' = IndexError(axs)
              /\ pc' = Continue(IndexError(axs), "scoring")
              /\ UNCHANGED << file, passwords, log >>
         ELSE /\ file' = f
              /\ log' = Append(log, OpenEvent(i, args.input_files[i],
                                              "calculate_password_statistics"))
              /\ err' = OpenError(f)
              /\ pc' = Continue(OpenError(f), "scoring")
              /\ passwords' = f.lines
    /\ k' = 1
    /\ scores' = << >>
    /\ score_counts' = EmptyCounts
    /\ UNCHANGED << args, zxcvbn, num_datasets, axs, i, stats, uniq, chars,
                    panels, shown >>

\* variant: the bucket is assigned instead of incremented
IncrementAssigned(counts, score) == [counts EXCEPT ![score] = 1]

\* score_counts[result['score']] += 1
Increment(counts, score) == [counts EXCEPT ![score] = @ + 1]

\* lines 19-24: one iteration of the scoring loop
ScoreStep ==
    /\ pc = "scoring"
    /\ k <= Len(passwords)
    /\ LET password == strip(passwords[k]) IN
         IF password # << >>
         THEN /\ scores' = Append(scores, zxcvbn[password])
              /\ score_counts' = Increment(score_counts, zxcvbn[password])
         ELSE UNCHANGED << scores, score_counts >>
    /\ k' = k + 1
    /\ UNCHANGED << pc, args, zxcvbn, num_datasets, axs, i, file, passwords,
                    stats, uniq, chars, log, panels, shown, err >>

\* variant: the statistics functions return a value for any input
StatisticsErrorNever(s) == NoError

\* statistics.mean raises StatisticsError on no data; variance and stdev
\* raise it on fewer than two data points
StatisticsError(s) ==
    IF Len(s) < 1 THEN [type |-> "StatisticsError", by |-> "mean"]
    ELSE IF Len(s) < 2 THEN [type |-> "StatisticsError", by |-> "variance"]
    ELSE NoError

\* lines 26-29: the locals assigned before the first raise
ComputeStats(s) ==
    IF Len(s) < 1 THEN NoStats
    ELSE IF Len(s) < 2 THEN [NoStats EXCEPT !.set = {"mean"}, !.mean = mean(s)]
    ELSE [set |-> {"mean", "variance", "median", "stdev"},
          mean |-> mean(s), variance |-> variance(s),
          median |-> median(s), stdev |-> stdev(s)]

\* variant: the median is printed before the variance
SummaryFieldsMedianFirst ==
    << "analytics_title", "count", "mean", "median", "variance", "stdev",
       "scores_title", "score_0", "score_1", "score_2", "score_3", "score_4" >>

\* lines 31-36 and 40-43: the console lines of one corpus, in print order;
\* score_counts.items() iterates in insertion order 0,1,2,3,4
SummaryFields ==
    << "analytics_title", "count", "mean", "variance", "median", "stdev",
       "scores_title", "score_0", "score_1", "score_2", "score_3", "score_4" >>

SummaryLines(corpus, label) ==
    [ n \in 1..Len(SummaryFields) |-> PrintEvent(corpus, label, SummaryFields[n]) ]

\* lines 26-53: after the loop
StatsFinish ==
    /\ pc = "scoring"
    /\ k > Len(passwords)
    /\ stats' = ComputeStats(scores)
    /\ err' = StatisticsError(scores)
    /\ pc' = Continue(StatisticsError(scores), "unique")
    /\ IF StatisticsError(scores).type # "none"
       THEN UNCHANGED << log, panels >>
       ELSE /\ log' = log \o SummaryLines(i, args.labels[i])
            /\ panels' = panels \cup { Panel("histogram", i, args.labels[i]) }
    /\ UNCHANGED << args, zxcvbn, num_datasets, axs, i, file, passwords, k,
                    scores, score_counts, uniq, chars, shown >>

\* ---------------------------------------------- calculate_unique_passwords
\* lines 59-68
calculate_unique_passwords(corpus, path, f, ax, label) ==
    /\ log' = Append(log, OpenEvent(corpus, path, "calculate_unique_passwords"))
    /\ err' = OpenError(f)
    /\ IF OpenError(f).type # "none"
       THEN UNCHANGED << uniq, panels >>
       ELSE /\ uniq' = [set |-> TRUE,
                        total |-> Len(StripAll(f.lines)),
                        unique_passwords |-> UniqueCount(StripAll(f.lines)),
                        duplicate_passwords |-> DuplicateCount(StripAll(f.lines))]
            /\ panels' = panels \cup { Panel("pie", ax, label) }

\* line 114
UniqueCall ==
    /\ pc = "unique"
    /\ calculate_unique_passwords(i, args.input_files[i], file, i, args.labels[i])
    /\ pc' = Continue(OpenError(file), "chars")
    /\ UNCHANGED << args, zxcvbn, num_datasets, axs, i, file, passwords, k,
                    scores, score_counts, stats, chars, shown >>

\* -------------------------------------- calculate_password_characteristics
\* lines 74-90
calculate_password_characteristics(corpus, path, f, ax, label) ==
    /\ log' = Append(log, OpenEvent(corpus, path, "calculate_password_characteristics"))
    /\ err' = OpenError(f)
    /\ IF OpenError(f).type # "none"
       THEN UNCHANGED << chars, panels >>
       ELSE /\ chars' = [set |-> TRUE,
                         total |-> Len(StripAll(f.lines)),
                         digit_count |-> DigitCount(StripAll(f.lines)),
                         upper_count |-> UpperCount(StripAll(f.lines)),
                         special_count |-> SpecialCount(StripAll(f.lines))]
            /\ panels' = panels \cup { Panel("bar", ax, label) }

\* line 117
CharsCall ==
    /\ pc = "chars"
    /\ calculate_password_characteristics(i, args.input_files[i], file, i, args.labels[i])
    /\ pc' = Continue(OpenError(file), "end_body")
    /\ UNCHANGED << args, zxcvbn, num_datasets, axs, i, file, passwords, k,
                    scores, score_counts, stats, uniq, shown >>

\* line 109: the loop body is over and the loop moves to the next pair; the
\* locals of the three calls no longer exist
NextIteration ==
    /\ pc = "end_body"
    /\ i' = i + 1
    /\ pc' = "loop"
    /\ file' = [exists |-> FALSE, lines |-> << >>]
    /\ passwords' = << >> /\ k' = 1 /\ scores' = << >> /\ score_counts' = EmptyCounts
    /\ stats' = NoStats /\ uniq' = NoUniq /\ chars' = NoChars
    /\ UNCHANGED << args, zxcvbn, num_datasets, axs, log, panels, shown, err >>

\* lines 119-120: the loop is exhausted; tight_layout and show
Show ==
    /\ pc = "loop"
    /\ i > ZipLen(args)
    /\ shown' = TRUE
    /\ pc' = "done"
    /\ UNCHANGED << args, zxcvbn, num_datasets, axs, i, file, passwords, k,
                    scores, score_counts, stats, uniq, chars, log, panels, err >>

Next ==
    \/ CheckArgs
    \/ MakeFigures
    \/ StatsCall
    \/ ScoreStep
    \/ StatsFinish
    \/ UniqueCall
    \/ CharsCall
    \/ NextIteration
    \/ Show

Spec == Init /\ [][Next]_vars

\* ------------------------------------- the analyzers called on their own
\* one of the three functions called directly on one file, with one Axes
\* and one label
InitCall ==
    /\ pc = "call"
    /\ args \in [input_files : [1..1 -> Paths], labels : [1..1 -> Labels]]
    /\ num_datasets = 1 /\ axs = "Axes" /\ i = 1
    /\ file \in Files(RawLines)
    /\ zxcvbn \in [Passwords(RawLines) -> ScoreClasses]
    /\ Fresh

\* lines 14-18 of a direct call; ScoreStep and StatsFinish follow, and the
\* call has returned when pc = "unique"
CallStats ==
    /\ pc = "call"
    /\ log' = Append(log, OpenEvent(1, args.input_files[1],
                                    "calculate_password_statistics"))
    /\ err' = OpenError(file)
    /\ pc' = Continue(OpenError(file), "scoring")
    /\ passwords' = file.lines
    /\ k' = 1
    /\ scores' = << >>
    /\ score_counts' = EmptyCounts
    /\ UNCHANGED << args, zxcvbn, num_datasets, axs, i, file, stats, uniq,
                    chars, panels, shown >>

CallUnique ==
    /\ pc = "call"
    /\ calculate_unique_passwords(1, args.input_files[1], file, 1, args.labels[1])
    /\ pc' = Continue(OpenError(file), "returned")
    /\ UNCHANGED << args, zxcvbn, num_datasets, axs, i, file, passwords, k,
                    scores, score_counts, stats, chars, shown >>

CallChars ==
    /\ pc = "call"
    /\ calculate_password_characteristics(1, args.input_files[1], file, 1, args.labels[1])
    /\ pc' = Continue(OpenError(file), "returned")
    /\ UNCHANGED << args, zxcvbn, num_datasets, axs, i, file, passwords, k,
                    scores, score_counts, stats, uniq, shown >>

NextCall ==
    \/ CallStats
    \/ ScoreStep
    \/ StatsFinish
    \/ CallUnique
    \/ CallChars

SpecCall == InitCall /\ [][NextCall]_vars

TypeOK ==
    /\ pc \in {"check_args", "subplots", "loop", "scoring", "unique", "chars",
               "end_body", "done", "crashed", "call", "returned"}
    /\ i \in 0..(MaxFiles + 1)
    /\ shown \in BOOLEAN

\* ------------------------------------------------------------- properties
ArgsGiven == args.input_files # None /\ args.labels # None
Mismatch == ArgsGiven /\ Len(args.input_files) # Len(args.labels)

Opens == { n \in 1..Len(log) : log[n].ev = "open" }
Prints == { n \in 1..Len(log) : log[n].ev = "print" }
PrintsOf(c) == { n \in Prints : log[n].corpus = c }
Printed(c, field) == \E n \in PrintsOf(c) : log[n].detail = field

\* the corpus being analysed holds no / exactly one non-empty password
NonEmptyLines(ls) == { n \in 1..Len(ls) : strip(ls[n]) # << >> }
EmptyCorpus == file.exists /\ NonEmptyLines(file.lines) = {}
OnePassword == file.exists /\ Cardinality(NonEmptyLines(file.lines)) = 1
AfterStatistics == pc \notin {"call", "loop", "scoring"}

\* C1 as stated: when the number of input files differs from the number of
\* labels the run fails with a ConfigurationError, and no corpus file is
\* opened and no corpus is processed before the error.
C1_AsStated ==
    Mismatch =>
        /\ log = << >> /\ panels = {} /\ passwords = << >>
        /\ pc # "check_args" => (pc = "crashed" /\ err.type = "ConfigurationError")

\* C1 amended: when both lists are given and their lengths differ, the run
\* fails with the ValueError of the length check, and in every such run no
\* corpus file is opened and no corpus is processed, before or after it.
C1_MismatchIsValueErrorBeforeIO ==
    Mismatch =>
        /\ log = << >> /\ panels = {} /\ passwords = << >> /\ ~shown
        /\ pc \in {"check_args", "crashed"}
        /\ pc = "crashed" => (err.type = "ValueError" /\ err.by = "__main__")

C1_Witness ==
    /\ Mismatch /\ pc = "crashed" /\ err.type = "ValueError"
    /\ Len(args.input_files) = 2 /\ Len(args.labels) = 1

\* C2 as stated: when some corpus fails, no textual summary and no chart
\* panel has been produced for any corpus, the earlier ones included.
C2_AsStated ==
    err.type # "none" => (Prints = {} /\ panels = {} /\ ~shown)

\* C2 amended: when corpus k fails in its statistics pass (its file cannot
\* be opened, or it holds fewer than two passwords) the run stops there: the
\* figures are never shown and nothing is printed or drawn for corpus k or a
\* later one, while each corpus before k keeps its full printed summary and
\* its three panels on the unshown figures.
C2_FailureStopsRunUnshown ==
    err.type # "none" =>
        /\ pc = "crashed" /\ ~shown
        /\ \A n \in 1..Len(log) :
              /\ log[n].corpus <= i
              /\ log[n].ev = "print" => log[n].corpus < i
        /\ \A p \in panels : p.ax < i
        /\ \A c \in 1..(i - 1) :
              /\ \A n \in 1..Len(SummaryFields) : Printed(c, SummaryFields[n])
              /\ \A fam \in {"histogram", "pie", "bar"} :
                    Panel(fam, c, args.labels[c]) \in panels

C2_Witness ==
    /\ pc = "crashed" /\ err.type = "FileNotFoundError" /\ i = 2
    /\ Printed(1, "count") /\ Panel("bar", 1, args.labels[1]) \in panels
    /\ ~shown

\* C3 as stated: a corpus with zero non-empty lines after stripping makes
\* the statistics aggregator fail with EmptyCorpusError, and no count, mean,
\* median, variance, standard deviation or bucket line is printed for it.
C3_AsStated ==
    (EmptyCorpus /\ AfterStatistics) =>
        /\ pc = "crashed" /\ err.type = "EmptyCorpusError"
        /\ PrintsOf(i) = {}

\* C3 amended: a corpus with zero non-empty lines after stripping makes the
\* statistics aggregator fail with the StatisticsError of statistics.mean,
\* and no count, mean, median, variance, standard deviation or bucket line is
\* printed for it and no statistic is computed.
C3_EmptyCorpusIsStatisticsError ==
    (EmptyCorpus /\ AfterStatistics) =>
        /\ pc = "crashed" /\ err.type = "StatisticsError" /\ err.by = "mean"
        /\ PrintsOf(i) = {} /\ stats.set = {}
        /\ \A p \in panels : p.ax # i

C3_Witness ==
    /\ EmptyCorpus /\ pc = "crashed" /\ err.by = "mean"
    /\ Len(file.lines) >= 2 /\ i = 2

\* C4: a corpus with exactly one non-empty password makes the statistics
\* aggregator raise InsufficientDataError for variance/stdev, an error
\* distinct from the one an empty corpus raises, and the run still yields
\* count = 1 and mean equal to that password's score.
C4_OnePasswordInsufficientData ==
    (OnePassword /\ AfterStatistics) =>
        /\ err.type = "InsufficientDataError"
        /\ err.type # StatisticsError(<< >>).type
        /\ Printed(i, "count") /\ Printed(i, "mean")
        /\ Len(scores) = 1 /\ stats.mean = [num |-> scores[1], den |-> 1]

\* the raw lines the scoring loop has gone through so far
Scanned == SubSeq(passwords, 1, k - 1)

\* C5: in the statistics aggregator, after each step of the scoring loop and
\* at its end, the frequency table has exactly the keys 0..4, each bucket
\* holds the number of retained scores of that class, and the buckets sum to
\* the number of scored (non-empty after strip) passwords, which is the
\* length of the retained score list.
C5_BucketsSumToScored ==
    /\ DOMAIN score_counts = 0..4
    /\ \A c \in 0..4 :
          score_counts[c] = Cardinality({ n \in 1..Len(scores) : scores[n] = c })
    /\ score_counts[0] + score_counts[1] + score_counts[2] + score_counts[3]
          + score_counts[4] = Len(scores)
    /\ Len(scores) = Cardinality(NonEmptyLines(Scanned))

C5_Witness ==
    /\ pc = "scoring" /\ k > Len(passwords)
    /\ Len(passwords) = 3 /\ Len(scores) = 2
    /\ scores[1] # scores[2]

\* C6: the uniqueness, character-class and statistics analyses of one corpus
\* exclude empty-after-strip lines alike: the totals the uniqueness and the
\* character-class analyzers use equal the number of passwords the statistics
\* aggregator scored, and the empty string is no unique or duplicate password.
C6_UniformExclusionOfEmpties ==
    /\ uniq.set =>
          /\ uniq.total = Len(scores)
          /\ uniq.unique_passwords =
                Cardinality({ strip(file.lines[n]) : n \in NonEmptyLines(file.lines) })
    /\ chars.set => chars.total = Len(scores)

\* first occurrences of a stripped value in a file
FirstOccurrences(ls) ==
    { n \in 1..Len(ls) : \A m \in 1..(n - 1) : strip(ls[m]) # strip(ls[n]) }

MatchAll(ls) == { n \in 1..Len(ls) :
                    /\ \E m \in 1..Len(ls[n]) : ls[n][m] \in Digits
                    /\ \E m \in 1..Len(ls[n]) : ls[n][m] \in Uppercase
                    /\ \E m \in 1..Len(ls[n]) : ls[n][m] \in SpecialChars }
MatchNone(ls) == { n \in 1..Len(ls) :
                    \A m \in 1..Len(ls[n]) :
                        ls[n][m] \notin (Digits \cup Uppercase \cup SpecialChars) }

\* C8: digit_count, upper_count and special_count are each between 0 and the
\* total line count; a password matching all three predicates adds one to
\* each of the three counters and a password matching none adds to none.
C8_ClassCountsIndependent ==
    chars.set =>
        /\ chars.total = Len(file.lines)
        /\ \A cnt \in {chars.digit_count, chars.upper_count, chars.special_count} :
              /\ cnt >= 0 /\ cnt <= chars.total
              /\ cnt >= Cardinality(MatchAll(file.lines))
              /\ cnt <= chars.total - Cardinality(MatchNone(file.lines))

C8_Witness ==
    /\ pc = "returned" /\ chars.set /\ chars.total = 3
    /\ chars.digit_count = 2 /\ chars.upper_count = 2 /\ chars.special_count = 2

Families == {"histogram", "pie", "bar"}

\* C9: in every run with n >= 1 corpora (as many labels as files, every file
\* readable and holding at least two passwords), n = 1 included, each corpus
\* contributes exactly one panel per metric family, labeled with its display
\* label, and the run reaches the final rendering step: such a run fails for
\* no other reason than a file, and ends with exactly those panels shown.
C9_OnePanelPerCorpusPerFamily ==
    (ArgsGiven /\ ~Mismatch) =>
        /\ pc = "crashed" => err.type \in {"FileNotFoundError", "StatisticsError"}
        /\ pc = "done" =>
              /\ shown
              /\ panels = { Panel(fam, c, args.labels[c]) :
                              fam \in Families, c \in 1..Len(args.input_files) }

\* the statistic lines of a summary, in the documented order
StatOrder == << "count", "mean", "variance", "median", "stdev",
                "score_0", "score_1", "score_2", "score_3", "score_4" >>
StatFields == { "count", "mean", "variance", "median", "stdev",
                "score_0", "score_1", "score_2", "score_3", "score_4" }

\* the statistic fields printed for corpus c, in print order
StatsPrinted(c) ==
    LET Keep(e) == e.corpus = c /\ e.ev = "print" /\ e.detail \in StatFields
        kept == SelectSeq(log, Keep)
    IN  [ n \in 1..Len(kept) |-> kept[n].detail ]

\* C10: corpora are processed one after the other in the order supplied;
\* each corpus's console output is count, mean, variance, median, stdev, then
\* the five bucket lines for scores 0..4; every line of corpus i precedes
\* every line of corpus i+1, and the summary of corpus i is printed before
\* any file of corpus i+1 is read.
C10_SequentialOrderedOutput ==
    /\ \A n \in 1..(Len(log) - 1) : log[n].corpus <= log[n + 1].corpus
    /\ \A n \in 1..Len(log) :
          log[n].subject = IF log[n].ev = "open"
                           THEN args.input_files[log[n].corpus]
                           ELSE args.labels[log[n].corpus]
    /\ \A c \in 1..(MaxFiles + 1) :
          LET printed == StatsPrinted(c) IN
          /\ printed \in { << >>, StatOrder }
          /\ (log # << >> /\ log[Len(log)].corpus > c) => printed = StatOrder

C10_Witness ==
    /\ pc = "done" /\ args.input_files = << "f2", "f1" >>
    /\ args.labels = << "B", "A" >>
    /\ StatsPrinted(1) = StatOrder /\ StatsPrinted(2) = StatOrder

====
